---- MODULE Spec2Model ----
(***************************************************************************)
(* Voice capture and transcription subsystem.                              *)
(*                                                                         *)
(*   VoiceRecorder / AudioRecorder   src/src/utils/VoiceRecorder.ts,       *)
(*                                   src/src/components/                   *)
(*                                       ClientMicrophoneButton.tsx        *)
(*   MicrophoneButton                ClientMicrophoneButton.tsx 364-564    *)
(*   ClientSpeechRecognition         src/unnamed/part_000                  *)
(*   ClientMicrophoneButton          ClientMicrophoneButton.tsx 13-152     *)
(*                                                                         *)
(* The runtime is single threaded: every action below is one task of the   *)
(* event loop (a call from the caller, a device callback, a timer) run to  *)
(* completion together with the promise continuations it releases.         *)
(***************************************************************************)
EXTENDS Integers, Sequences, FiniteSets, TLC

\* ------------------------------------------------------------------ bounds
MaxCalls == 3         \* startRecording() and stopRecording() calls of a caller
MaxChunks == 2        \* non-empty chunks the MediaRecorders deliver in all
MaxListens == 2       \* startListening() calls
MaxResults == 2       \* results the recognizer delivers in all
MaxEncodes == 2       \* blobs handed to the payload encoder

\* ------------------------------------------------------------- input sets
ChunkSizes == {0, 1, 2}
GumErrors == {"NotAllowedError", "NotFoundError", "NotReadableError",
              "OverconstrainedError", "AbortError"}

\* The ordered candidate list of startRecording().
mimeTypes == <<"audio/webm;codecs=opus", "audio/webm", "audio/mp4",
               "audio/mpeg", "audio/wav">>
MimeSet == {mimeTypes[i] : i \in 1..Len(mimeTypes)}
\* The runtimes a caller of the recorder object is run on: one with no
\* encoding, one with two of the later candidates.
SupportedChoices == {{}, {"audio/mp4", "audio/wav"}}
\* The getUserMedia failures a caller of the recorder object is put through.
CallerGumErrors == {"NotAllowedError", "AbortError"}

VARIABLES
    supported,    \* the encodings MediaRecorder.isTypeSupported accepts
    streams,      \* MediaStreams handed out by getUserMedia, by id
    mrs,          \* MediaRecorder objects created so far, by id
    objs,         \* VoiceRecorder / AudioRecorder instances, by id
    startCalls,   \* startRecording() invocations
    stopCalls,    \* stopRecording() invocations (one promise each)
    ui,           \* MicrophoneButton: its state hooks and refs
    out,          \* what the button has shown, sent and handed on
    recognition,  \* the browser's SpeechRecognition object
    isListening,  \* ClientSpeechRecognition.isListening
    listenCalls,  \* startListening() invocations (one promise each)
    lui,          \* ClientMicrophoneButton: its state hooks
    mounted       \* the microphone button ChatBot renders, "none" for a bare object

vars == <<supported, streams, mrs, objs, startCalls, stopCalls, ui, out,
          recognition, isListening, listenCalls, lui, mounted>>

\* The state of the local recognition.
local == <<recognition, isListening, listenCalls, lui>>

\* What the recorder actions leave alone.
env == <<supported, mounted, local>>

\* The mutable state the class methods, handlers and callbacks work on.
Heap == [streams |-> streams, mrs |-> mrs, objs |-> objs,
         startCalls |-> startCalls, stopCalls |-> stopCalls,
         ui |-> ui, out |-> out]

RECURSIVE Sum(_)
Sum(s) == IF s = <<>> THEN 0 ELSE Head(s) + Sum(Tail(s))

\* new Blob(parts, {type}): the parts concatenated in order.
Blob(parts, type) == [chunks |-> parts, type |-> type]
BlobSize(b) == Sum(b.chunks)
NoBlob == Blob(<<>>, "")

Err(name, message) == [name |-> name, message |-> message]
NoErr == Err("", <<>>)

\* ------------------------------------------------------ VoiceRecorder
NewObj(kind) ==
    [kind |-> kind, stream |-> 0, mediaRecorder |-> 0, audioChunks |-> <<>>,
     released |-> FALSE, tick |-> FALSE, overlap |-> FALSE, cleanups |-> 0]

\* A release routine that stops the tracks and forgets to drop the stream.
cleanupKeepsStream(h, o) ==
    LET s == h.objs[o].stream IN
    [h EXCEPT
       !.streams = IF s # 0
                   THEN [h.streams EXCEPT ![s].live = FALSE,
                                          ![s].stops = h.streams[s].stops + 1]
                   ELSE h.streams,
       !.objs[o].mediaRecorder = 0,
       !.objs[o].audioChunks = <<>>,
       !.objs[o].released = TRUE,
       !.objs[o].tick = ~h.objs[o].tick,
       !.objs[o].cleanups = h.objs[o].cleanups + 1]

\* cleanup(): stop the tracks of the stream held, drop the three references.
\* Ghosts: released, the release routine ran since the last acquisition;
\* tick, flipped by every run of the routine; stops, the track.stop() calls;
\* cleanups, the runs of the routine since the last startRecording().
cleanup(h, o) ==
    LET s == h.objs[o].stream IN
    [h EXCEPT
       !.streams = IF s # 0
                   THEN [h.streams EXCEPT ![s].live = FALSE,
                                          ![s].stops = h.streams[s].stops + 1]
                   ELSE h.streams,
       !.objs[o].stream = 0,
       !.objs[o].mediaRecorder = 0,
       !.objs[o].audioChunks = <<>>,
       !.objs[o].released = TRUE,
       !.objs[o].tick = ~h.objs[o].tick,
       !.objs[o].cleanups = h.objs[o].cleanups + 1]

\* An isRecording() that tests only that a recorder is held.
isRecordingHeld(h, o) ==
    h.objs[o].mediaRecorder # 0

\* isRecording(): this.mediaRecorder?.state === 'recording'
isRecording(h, o) ==
    /\ h.objs[o].mediaRecorder # 0
    /\ h.mrs[h.objs[o].mediaRecorder].state = "recording"

\* The for-loop over mimeTypes: the first supported candidate, '' if none.
RECURSIVE FirstSupported(_, _)
FirstSupported(list, sup) ==
    IF list = <<>> THEN ""
    ELSE IF Head(list) \in sup THEN Head(list)
    ELSE FirstSupported(Tail(list), sup)

\* A negotiation that keeps the last supported candidate (a loop without
\* its break).
selectedMimeTypeLast(sup) ==
    IF \A i \in 1..Len(mimeTypes) : mimeTypes[i] \notin sup THEN ""
    ELSE mimeTypes[CHOOSE i \in 1..Len(mimeTypes) :
                      /\ mimeTypes[i] \in sup
                      /\ \A j \in (i+1)..Len(mimeTypes) : mimeTypes[j] \notin sup]

selectedMimeType(sup) ==
    FirstSupported(mimeTypes, sup)

\* A catch block without its NotReadableError branch.
classifyStartErrorNoBusy(e) ==
    IF e.name = "NotAllowedError"
    THEN Err("Error", <<"Microphone access denied. Please allow microphone permissions in your browser settings and try again.">>)
    ELSE IF e.name = "NotFoundError"
    THEN Err("Error", <<"No microphone found. Please connect a microphone and try again.">>)
    ELSE IF e.name = "OverconstrainedError"
    THEN Err("Error", <<"Microphone does not support the required audio format. Please try with a different microphone.">>)
    ELSE Err("Error", <<"Failed to access microphone: ">> \o e.message)

\* The catch block of VoiceRecorder.startRecording: the error thrown to the
\* caller, by the name of the error caught.
classifyStartError(e) ==
    IF e.name = "NotAllowedError"
    THEN Err("Error", <<"Microphone access denied. Please allow microphone permissions in your browser settings and try again.">>)
    ELSE IF e.name = "NotFoundError"
    THEN Err("Error", <<"No microphone found. Please connect a microphone and try again.">>)
    ELSE IF e.name = "NotReadableError"
    THEN Err("Error", <<"Microphone is already in use by another application. Please close other applications using the microphone and try again.">>)
    ELSE IF e.name = "OverconstrainedError"
    THEN Err("Error", <<"Microphone does not support the required audio format. Please try with a different microphone.">>)
    ELSE Err("Error", <<"Failed to access microphone: ">> \o e.message)

\* What startRecording() throws: VoiceRecorder classifies, AudioRecorder
\* rethrows the error it caught.
thrownByStart(kind, e) ==
    IF kind = "VoiceRecorder" THEN classifyStartError(e) ELSE e

NoSupportedFormat == Err("Error", <<"No supported audio format found on this device">>)

\* A data callback without its size test.
ondataavailableAnySize(chunks, size) ==
    Append(chunks, size)

\* A data callback that puts the chunk in front (unshift for push).
ondataavailableUnshift(chunks, size) ==
    IF size > 0 THEN <<size>> \o chunks ELSE chunks

\* ondataavailable: a chunk is appended only when its size is positive.
ondataavailable(chunks, size) ==
    IF size > 0 THEN Append(chunks, size) ELSE chunks

\* --------------------------------------------------------- promise plumbing
\* A startRecording() invocation.  Ghosts: acquired and created, the stream
\* and recorder it obtained; cause, the name of the error getUserMedia
\* rejected it with.
NewStart(o, rec) ==
    [obj |-> o, pc |-> "gum", error |-> NoErr, acquired |-> 0, created |-> 0,
     probed |-> FALSE, onRecording |-> rec, task |-> "none", cause |-> ""]

\* Ghost of a stop call: the response its request got.
NoResponse == [arrived |-> FALSE, ok |-> FALSE, valid |-> FALSE, text |-> <<>>]

NewStop(o) ==
    [obj |-> o, mr |-> 0, timer |-> FALSE, fired |-> FALSE, status |-> "pending",
     error |-> NoErr, blob |-> NoBlob,
     handler |-> "none", convTimer |-> FALSE, reader |-> "idle",
     response |-> NoResponse, during |-> 0]

\* Ghost of a stop call: the startRecording() call on object o that awaits
\* getUserMedia when the stop call is made (the latest; 0: none).
PendingStart(h, o) ==
    LET S == {c \in DOMAIN h.startCalls :
                h.startCalls[c].obj = o /\ h.startCalls[c].pc = "gum"}
    IN  IF S = {} THEN 0 ELSE CHOOSE c \in S : \A d \in S : d <= c

\* resolve / reject of the promise of stopRecording(): the first one wins.
resolve(h, p, blob) ==
    IF h.stopCalls[p].status = "pending"
    THEN [h EXCEPT !.stopCalls[p].status = "resolved", !.stopCalls[p].blob = blob]
    ELSE h

reject(h, p, e) ==
    IF h.stopCalls[p].status = "pending"
    THEN [h EXCEPT !.stopCalls[p].status = "rejected", !.stopCalls[p].error = e]
    ELSE h

clearTimeout(h, p) == [h EXCEPT !.stopCalls[p].timer = FALSE]

\* The errors stopRecording() rejects with. VoiceRecorder's messages carry
\* the advice that AudioRecorder's leave out.
advice(kind, text) == IF kind = "VoiceRecorder" THEN <<text>> ELSE <<>>
StopTimeoutError(kind) ==
    Err("Error", <<"Recording stop timeout">> \o advice(kind, " - please try again"))
NoRecordingError == Err("Error", <<"No recording in progress">>)
NoAudioError(kind) ==
    Err("Error", <<"No audio data recorded">>
                 \o advice(kind, ". Please try speaking louder or check your microphone."))
EmptyAudioError(kind) ==
    Err("Error", <<"Empty audio recording">> \o advice(kind, ". Please try again."))
NotActiveError == Err("Error", <<"Recording is not active">>)
\* The error event carries no message: VoiceRecorder adds 'Unknown error'.
RecordingFailedError(kind) ==
    Err("Error", <<"Recording failed">> \o advice(kind, ": Unknown error"))

\* --------------------------------------------- startRecording(), after await
\* The body of startRecording() once getUserMedia has resolved with stream s.
startGranted(h, c, s) ==
    LET o == h.startCalls[c].obj
        mime == selectedMimeType(supported)
        r == Len(h.mrs) + 1
        h1 == [h EXCEPT !.objs[o].stream = s, !.objs[o].released = FALSE,
                        !.startCalls[c].acquired = s, !.startCalls[c].probed = TRUE,
                        !.startCalls[c].pc = "done"]
    IN  IF mime = ""
        THEN [cleanup(h1, o) EXCEPT
                !.startCalls[c].error = thrownByStart(h.objs[o].kind, NoSupportedFormat)]
        ELSE [h1 EXCEPT
                !.mrs = Append(h.mrs,
                          [state |-> "recording", stream |-> s, mimeType |-> mime,
                           owner |-> o, onstop |-> 0, onerror |-> 0, stopPending |-> FALSE,
                           errored |-> FALSE, delivered |-> <<>>]),
                !.objs[o].mediaRecorder = r,
                !.objs[o].audioChunks = <<>>,
                !.startCalls[c].created = r]

\* The catch block when getUserMedia rejects with error e.
startRejected(h, c, e) ==
    LET o == h.startCalls[c].obj IN
    [cleanup(h, o) EXCEPT
       !.startCalls[c].pc = "done",
       !.startCalls[c].error = thrownByStart(h.objs[o].kind, e)]

\* ------------------------------------------------------------ stopRecording()
\* An onstop handler that resolves without running the release routine.
onstopNoCleanup(h, p) ==
    LET o == h.stopCalls[p].obj
        h1 == clearTimeout(h, p)
        chunks == h.objs[o].audioChunks
        m == h.objs[o].mediaRecorder
        audioBlob == Blob(chunks, IF m # 0 THEN h.mrs[m].mimeType ELSE "audio/webm")
    IN  IF Len(chunks) = 0 THEN reject(cleanup(h1, o), p, NoAudioError(h.objs[o].kind))
        ELSE IF BlobSize(audioBlob) = 0
        THEN reject(cleanup(h1, o), p, EmptyAudioError(h.objs[o].kind))
        ELSE resolve(h1, p, audioBlob)

\* The onstop handler installed by stop call p on its object.
onstop(h, p) ==
    LET o == h.stopCalls[p].obj
        h1 == clearTimeout(h, p)
        chunks == h.objs[o].audioChunks
        m == h.objs[o].mediaRecorder
        audioBlob == Blob(chunks, IF m # 0 THEN h.mrs[m].mimeType ELSE "audio/webm")
    IN  IF Len(chunks) = 0 THEN reject(cleanup(h1, o), p, NoAudioError(h.objs[o].kind))
        ELSE IF BlobSize(audioBlob) = 0 THEN reject(cleanup(h1, o), p, EmptyAudioError(h.objs[o].kind))
        ELSE resolve(cleanup(h1, o), p, audioBlob)

\* The onerror handler installed by stop call p.
onerrorStopping(h, p) ==
    reject(cleanup(clearTimeout(h, p), h.stopCalls[p].obj), p, RecordingFailedError(h.objs[h.stopCalls[p].obj].kind))

\* A timer callback that rejects and does not run the release routine.
stopTimeoutNoCleanup(h, p) ==
    LET h1 == [clearTimeout(h, p) EXCEPT !.stopCalls[p].fired = TRUE] IN
    reject(h1, p, StopTimeoutError(h.objs[h.stopCalls[p].obj].kind))

\* The 5 second timer of stop call p.
stopTimeout(h, p) ==
    LET h1 == [clearTimeout(h, p) EXCEPT !.stopCalls[p].fired = TRUE] IN
    reject(cleanup(h1, h.stopCalls[p].obj), p,
           StopTimeoutError(h.objs[h.stopCalls[p].obj].kind))

\* A stopRecording() that arms no timer.
stopRecordingNoTimer(h, o) ==
    LET p == Len(h.stopCalls) + 1
        h0 == [h EXCEPT !.stopCalls = Append(h.stopCalls,
                          [NewStop(o) EXCEPT !.during = PendingStart(h, o)])]
        r == h.objs[o].mediaRecorder
    IN  IF r = 0 THEN reject(h0, p, NoRecordingError)
        ELSE LET h1 == [h0 EXCEPT !.stopCalls[p].mr = r,
                                  !.mrs[r].onstop = p,
                                  !.mrs[r].onerror = p]
             IN  IF h.mrs[r].state = "recording"
                 THEN [h1 EXCEPT !.mrs[r].state = "inactive",
                                 !.mrs[r].stopPending = TRUE]
                 ELSE reject(cleanup(h1, o), p, NotActiveError)

\* The executor of the promise stopRecording() returns, as call number p.
stopRecording(h, o) ==
    LET p == Len(h.stopCalls) + 1
        h0 == [h EXCEPT !.stopCalls = Append(h.stopCalls,
                          [NewStop(o) EXCEPT !.during = PendingStart(h, o)])]
        r == h.objs[o].mediaRecorder
    IN  IF r = 0 THEN reject(h0, p, NoRecordingError)
        ELSE LET h1 == [h0 EXCEPT !.stopCalls[p].mr = r,
                                  !.stopCalls[p].timer = TRUE,
                                  !.mrs[r].onstop = p,
                                  !.mrs[r].onerror = p]
             IN  IF h.mrs[r].state = "recording"
                 THEN [h1 EXCEPT !.mrs[r].state = "inactive",
                                 !.mrs[r].stopPending = TRUE]
                 ELSE reject(cleanup(clearTimeout(h1, p), o), p, NotActiveError)

\* ----------------------------------------------------------- text values
\* Strings are sequences of characters; " " is the white space.
RECURSIVE TrimStart(_)
TrimStart(s) == IF s # <<>> /\ Head(s) = " " THEN TrimStart(Tail(s)) ELSE s
RECURSIVE TrimEnd(_)
TrimEnd(s) ==
    IF s # <<>> /\ s[Len(s)] = " " THEN TrimEnd(SubSeq(s, 1, Len(s) - 1)) ELSE s
\* String.prototype.trim()
Trim(s) == TrimEnd(TrimStart(s))

\* --------------------------------------------------------- MicrophoneButton
InitUi == [isRecording |-> FALSE, isProcessing |-> FALSE, microphoneError |-> <<>>,
           recorderRef |-> 0, recordingTimerRef |-> FALSE]
\* Ghost: failed, a destructive toast was shown since the last click.
InitOut == [toast |-> <<>>, transcribed |-> <<>>, requests |-> 0, failed |-> FALSE]

toast(h, title, description) == [h EXCEPT !.out.toast = <<title>> \o description]

\* toast({..., variant: "destructive"})
toastDestructive(h, title, description) ==
    [toast(h, title, description) EXCEPT !.out.failed = TRUE]

\* The message handleStartRecording shows for the error it caught.
startErrorMessage(e) ==
    IF e.name = "NotAllowedError"
    THEN <<"Microphone access denied. Please allow microphone permissions and try again.">>
    ELSE IF e.name = "NotFoundError"
    THEN <<"No microphone found. Please connect a microphone and try again.">>
    ELSE IF e.name = "NotReadableError"
    THEN <<"Microphone is being used by another application. Please close other apps and try again.">>
    ELSE <<"Failed to start recording. ">> \o e.message

\* handleStartRecording after `await recorderRef.current.startRecording()`.
afterStart(h, c) ==
    LET e == h.startCalls[c].error
        h1 == [h EXCEPT !.startCalls[c].task = "done"]
    IN  IF e = NoErr
        THEN toast([h1 EXCEPT !.ui.recordingTimerRef = TRUE],
                   "Recording started", <<"Speak clearly into your microphone">>)
        ELSE toastDestructive([h1 EXCEPT !.ui.isRecording = FALSE,
                                         !.ui.microphoneError = startErrorMessage(e)],
                         "Microphone Error", startErrorMessage(e))

\* A handler whose catch block shows the error and has no finally block.
stopFailedNoFinally(h, p, e) ==
    toastDestructive([h EXCEPT !.stopCalls[p].handler = "done"], "Error", e.message)

\* The catch and finally blocks of handleStopRecording, for its call p.
stopFailed(h, p, e) ==
    toastDestructive([h EXCEPT !.stopCalls[p].handler = "done",
                               !.ui.isProcessing = FALSE],
                     "Error", e.message)

\* The finally block alone.
stopFinished(h, p) ==
    [h EXCEPT !.stopCalls[p].handler = "done", !.ui.isProcessing = FALSE]

\* An encoder that does not test the size of the blob.
convertBlobToBase64NoSizeTest(h, p) ==
    [h EXCEPT !.stopCalls[p].handler = "convert",
              !.stopCalls[p].convTimer = TRUE,
              !.stopCalls[p].reader = "reading"]

\* convertBlobToBase64(blob), up to reader.readAsDataURL(blob).
convertBlobToBase64(h, p) ==
    IF BlobSize(h.stopCalls[p].blob) = 0
    THEN stopFailed(h, p, Err("Error", <<"Cannot convert empty blob to base64">>))
    ELSE [h EXCEPT !.stopCalls[p].handler = "convert",
                   !.stopCalls[p].convTimer = TRUE,
                   !.stopCalls[p].reader = "reading"]

\* handleStopRecording after `await recorderRef.current.stopRecording()`.
afterStop(h, p) ==
    IF h.stopCalls[p].status = "resolved"
    THEN convertBlobToBase64(h, p)
    ELSE stopFailed(h, p, h.stopCalls[p].error)

\* The promise continuations released by a task: every handler whose awaited
\* promise has settled runs on, in the order the calls were made.
RECURSIVE resumeStarts(_, _)
resumeStarts(h, c) ==
    IF c > Len(h.startCalls) THEN h
    ELSE resumeStarts(IF h.startCalls[c].task = "await" /\ h.startCalls[c].pc = "done"
                      THEN afterStart(h, c) ELSE h, c + 1)
RECURSIVE resumeStops(_, _)
resumeStops(h, p) ==
    IF p > Len(h.stopCalls) THEN h
    ELSE resumeStops(IF h.stopCalls[p].handler = "await" /\ h.stopCalls[p].status # "pending"
                     THEN afterStop(h, p) ELSE h, p + 1)

microtasks(h) == resumeStops(resumeStarts(h, 1), 1)

\* The state after a task and the continuations it released.
Commit(h) ==
    LET g == microtasks(h) IN
    /\ streams' = g.streams
    /\ mrs' = g.mrs
    /\ objs' = g.objs
    /\ startCalls' = g.startCalls
    /\ stopCalls' = g.stopCalls
    /\ ui' = g.ui
    /\ out' = g.out

\* ------------------------------------------------------------------ actions
RECURSIVE SumLen(_)
SumLen(rs) == IF rs = <<>> THEN 0 ELSE Len(Head(rs).delivered) + SumLen(Tail(rs))
\* The number of non-empty chunks delivered so far.
Delivered == SumLen(mrs)

\* Object o has a session in flight: a start call awaiting the microphone, a
\* recorder held, a recorder of its own that has not finalized, or a stop
\* promise not settled.
InFlight(o) ==
    \/ \E c \in DOMAIN startCalls : startCalls[c].obj = o /\ startCalls[c].pc # "done"
    \/ objs[o].mediaRecorder # 0
    \/ \E r \in DOMAIN mrs :
          mrs[r].owner = o /\ (mrs[r].state = "recording" \/ mrs[r].stopPending)
    \/ \E p \in DOMAIN stopCalls : stopCalls[p].obj = o /\ stopCalls[p].status = "pending"

\* A caller invokes startRecording() on VoiceRecorder o: the call runs up to
\* the await of getUserMedia. overlap is a ghost: some startRecording() was
\* invoked on the object while a session was in flight.
StartRecording(o) ==
    /\ Len(startCalls) + Len(stopCalls) < MaxCalls
    /\ objs[o].kind = "VoiceRecorder"
    /\ startCalls' = Append(startCalls, NewStart(o, isRecording(Heap, o)))
    /\ objs' = [objs EXCEPT ![o].overlap = objs[o].overlap \/ InFlight(o),
                            ![o].cleanups = 0]
    /\ UNCHANGED <<local, mounted, supported, streams, mrs, stopCalls, ui, out>>

\* getUserMedia resolves for start call c with a fresh live stream.
GetUserMediaGranted(c) ==
    /\ startCalls[c].pc = "gum"
    /\ LET s == Len(streams) + 1
           h == [Heap EXCEPT !.streams = Append(streams, [live |-> TRUE, stops |-> 0])]
       IN  Commit(startGranted(h, c, s))
    /\ UNCHANGED env

\* getUserMedia rejects for start call c.
GetUserMediaRejected(c, name) ==
    /\ startCalls[c].pc = "gum"
    /\ Commit([startRejected(Heap, c, Err(name, <<name>>)) EXCEPT
                 !.startCalls[c].cause = name])
    /\ UNCHANGED env

\* A caller invokes stopRecording() on VoiceRecorder o.
StopRecording(o) ==
    /\ Len(startCalls) + Len(stopCalls) < MaxCalls
    /\ objs[o].kind = "VoiceRecorder"
    /\ Commit(stopRecording(Heap, o))
    /\ UNCHANGED env

\* MediaRecorder r fires a periodic dataavailable event.
DataAvailable(r, size) ==
    /\ mrs[r].state = "recording"
    /\ size > 0 => Delivered < MaxChunks
    /\ LET o == mrs[r].owner IN
       Commit([Heap EXCEPT
                 !.objs[o].audioChunks = ondataavailable(objs[o].audioChunks, size),
                 !.mrs[r].delivered = IF size > 0 THEN Append(mrs[r].delivered, size)
                                      ELSE mrs[r].delivered])
    /\ UNCHANGED env

\* After stop(): one task of the runtime fires the last dataavailable event
\* and then the stop event (the finalize callback) of MediaRecorder r.
StopEvent(r, size) ==
    /\ mrs[r].stopPending
    /\ size > 0 => Delivered < MaxChunks
    /\ LET o == mrs[r].owner
           h == [Heap EXCEPT
                   !.objs[o].audioChunks = ondataavailable(objs[o].audioChunks, size),
                   !.mrs[r].delivered = IF size > 0 THEN Append(mrs[r].delivered, size)
                                        ELSE mrs[r].delivered,
                   !.mrs[r].stopPending = FALSE]
       IN  Commit(IF mrs[r].onstop = 0 THEN h ELSE onstop(h, mrs[r].onstop))
    /\ UNCHANGED env

\* MediaRecorder r reports an error: the recorder goes inactive, the error
\* event is dispatched, and the final dataavailable and stop events follow.
ErrorEvent(r) ==
    /\ ~mrs[r].errored
    /\ mrs[r].state = "recording" \/ mrs[r].stopPending
    /\ LET h == [Heap EXCEPT !.mrs[r].errored = TRUE,
                             !.mrs[r].state = "inactive",
                             !.mrs[r].stopPending = TRUE]
       IN  Commit(IF mrs[r].onerror = 0 THEN h ELSE onerrorStopping(h, mrs[r].onerror))
    /\ UNCHANGED env

\* The 5 second timer of stop call p fires.
StopTimeout(p) ==
    /\ stopCalls[p].timer
    /\ Commit(stopTimeout(Heap, p))
    /\ UNCHANGED env

\* The tracks of the stream MediaRecorder r records have ended: the runtime
\* stops the recorder and queues its last events.
TracksEnded(r) ==
    /\ mrs[r].state = "recording"
    /\ ~streams[mrs[r].stream].live
    /\ mrs' = [mrs EXCEPT ![r].state = "inactive", ![r].stopPending = TRUE]
    /\ UNCHANGED <<local, mounted, supported, streams, objs, startCalls, stopCalls, ui, out>>

\* ------------------------------------------------- the VoiceRecorder object
\* The recognizer before its first start; handlers is the startListening()
\* call whose four closures are installed (0: none).  Ghost: code, the error
\* of the error event it has fired and not yet followed by its end event.
NewRecognition ==
    [started |-> FALSE, running |-> FALSE, errored |-> FALSE, stopping |-> FALSE,
     handlers |-> 0, code |-> ""]

\* ClientMicrophoneButton's state hooks, on a runtime that has recognition.
InitLui == [isListening |-> FALSE, error |-> <<>>]

LocalIdle ==
    /\ recognition = NewRecognition
    /\ isListening = FALSE
    /\ listenCalls = <<>>
    /\ lui = InitLui

InitRecorder ==
    /\ supported \in SupportedChoices
    /\ streams = <<>>
    /\ mrs = <<>>
    /\ objs = <<NewObj("VoiceRecorder")>>
    /\ startCalls = <<>>
    /\ stopCalls = <<>>
    /\ ui = InitUi
    /\ out = InitOut
    /\ LocalIdle
    /\ mounted = "none"

NextRecorder ==
    \/ \E o \in DOMAIN objs : StartRecording(o)
    \/ \E c \in DOMAIN startCalls : GetUserMediaGranted(c)
    \/ \E c \in DOMAIN startCalls : \E name \in CallerGumErrors : GetUserMediaRejected(c, name)
    \/ \E o \in DOMAIN objs : StopRecording(o)
    \/ \E r \in DOMAIN mrs : \E size \in ChunkSizes : DataAvailable(r, size)
    \/ \E r \in DOMAIN mrs : \E size \in ChunkSizes : StopEvent(r, size)
    \/ \E r \in DOMAIN mrs : ErrorEvent(r)
    \/ \E p \in DOMAIN stopCalls : StopTimeout(p)
    \/ \E r \in DOMAIN mrs : TracksEnded(r)

SpecRecorder == InitRecorder /\ [][NextRecorder]_vars

\* Acquisition on every runtime: the VoiceRecorder object on each subset of
\* the candidate encodings, with every failure getUserMedia is tried with.
InitAcquire ==
    /\ supported \in SUBSET MimeSet
    /\ streams = <<>>
    /\ mrs = <<>>
    /\ objs = <<NewObj("VoiceRecorder")>>
    /\ startCalls = <<>>
    /\ stopCalls = <<>>
    /\ ui = InitUi
    /\ out = InitOut
    /\ LocalIdle
    /\ mounted = "none"

NextAcquire ==
    \/ \E o \in DOMAIN objs : StartRecording(o)
    \/ \E c \in DOMAIN startCalls : GetUserMediaGranted(c)
    \/ \E c \in DOMAIN startCalls : \E name \in GumErrors : GetUserMediaRejected(c, name)
    \/ \E o \in DOMAIN objs : StopRecording(o)
    \/ \E r \in DOMAIN mrs : \E size \in ChunkSizes : StopEvent(r, size)

SpecAcquire == InitAcquire /\ [][NextAcquire]_vars

\* ------------------------------------------------ MicrophoneButton actions
\* The response bodies the transcription service is tried with: a text that
\* is absent or empty, blank, or padded; an error that is absent, names the
\* missing API key, or is another one.
Texts == {<<>>, <<" ">>, <<" ", "a">>}
KeyMissing == "OpenAI API key not configured"
ServiceErrors == {<<>>, <<"speech-to-text: ", KeyMissing>>, <<"bad audio">>}
\* data.error?.includes('OpenAI API key not configured')
includesKeyMissing(e) == \E i \in DOMAIN e : e[i] = KeyMissing

\* A click while the button shows the microphone: handleStartRecording up to
\* `await checkMicrophonePermissions()`.
StartClick ==
    /\ mounted = "MicrophoneButton"
    /\ ~ui.isRecording /\ ~ui.isProcessing
    /\ Len(startCalls) + Len(stopCalls) < MaxCalls
    /\ ui' = [ui EXCEPT !.microphoneError = <<>>, !.isRecording = TRUE]
    /\ startCalls' = Append(startCalls,
                        [NewStart(0, FALSE) EXCEPT !.pc = "perm", !.task = "await"])
    /\ out' = [out EXCEPT !.failed = FALSE]
    /\ UNCHANGED <<local, mounted, supported, streams, mrs, objs, stopCalls>>

\* The permission query settles (its answer is only logged): the handler
\* creates a new AudioRecorder, stores it in recorderRef and calls its
\* startRecording(), which runs up to the await of getUserMedia.
PermissionSettled(c) ==
    /\ startCalls[c].pc = "perm"
    /\ objs' = Append(objs, NewObj("AudioRecorder"))
    /\ ui' = [ui EXCEPT !.recorderRef = Len(objs) + 1]
    /\ startCalls' = [startCalls EXCEPT ![c].obj = Len(objs) + 1, ![c].pc = "gum"]
    /\ UNCHANGED <<local, mounted, supported, streams, mrs, stopCalls, out>>

\* A click while the button shows recording: handleStopRecording up to
\* `await recorderRef.current.stopRecording()`.
StopClick ==
    /\ mounted = "MicrophoneButton"
    /\ ui.isRecording /\ ~ui.isProcessing
    /\ ui.recorderRef # 0 => Len(startCalls) + Len(stopCalls) < MaxCalls
    /\ LET h0 == [Heap EXCEPT !.ui.isRecording = FALSE, !.ui.isProcessing = TRUE,
                              !.ui.recordingTimerRef = FALSE, !.out.failed = FALSE]
           p == Len(stopCalls) + 1
       IN  IF ui.recorderRef = 0
           THEN Commit(toastDestructive([h0 EXCEPT !.ui.isProcessing = FALSE],
                                        "Error", <<"No recorder available">>))
           ELSE Commit([stopRecording(h0, ui.recorderRef) EXCEPT
                          !.stopCalls[p].handler = "await"])
    /\ UNCHANGED env

\* A handler that hands on whatever text is not empty, untrimmed.
onTextUntrimmed(h, text) ==
    IF text # <<>>
    THEN toast([h EXCEPT !.out.transcribed = Append(h.out.transcribed, text)],
               "Speech recognized", <<"Text has been transcribed successfully">>)
    ELSE toastDestructive(h, "No speech detected", <<"Please try speaking more clearly">>)

\* handleStopRecording on the text of an OK response: handed to
\* onTranscription trimmed, or reported as no speech.
onText(h, text) ==
    IF text # <<>> /\ Trim(text) # <<>>
    THEN toast([h EXCEPT !.out.transcribed = Append(h.out.transcribed, Trim(text))],
               "Speech recognized", <<"Text has been transcribed successfully">>)
    ELSE toastDestructive(h, "No speech detected", <<"Please try speaking more clearly">>)

\* What reader.result holds at loadend: nothing, a data URL with nothing
\* after its comma, or a data URL with the base64 content of the blob.
ReaderResults == {"null", "prefix", "content"}

\* An onloadend that resolves without testing the base64 content.
onloadendNoContentTest(h, p, base64String) ==
    IF h.stopCalls[p].handler # "convert" THEN h
    ELSE IF base64String = <<>>
    THEN stopFailed(h, p, Err("Error", <<"Failed to convert audio to base64">>))
    ELSE [h EXCEPT !.stopCalls[p].handler = "fetch",
                   !.out.requests = h.out.requests + 1]

\* reader.onloadend of the conversion of stop call p, with reader.result as
\* the pair of the data URL's prefix and the content after the comma; the
\* handler awaiting a resolved conversion goes on to send its request.
onloadend(h, p, base64String) ==
    IF h.stopCalls[p].handler # "convert" THEN h
    ELSE IF base64String = <<>>
    THEN stopFailed(h, p, Err("Error", <<"Failed to convert audio to base64">>))
    ELSE IF base64String[2] = <<>>
    THEN stopFailed(h, p, Err("Error", <<"Invalid base64 data">>))
    ELSE [h EXCEPT !.stopCalls[p].handler = "fetch",
                   !.out.requests = h.out.requests + 1]

\* The reader of the conversion of stop call p fires loadend (ghost: the
\* reader keeps what it ended with).
ReaderLoadEnd(p, result) ==
    /\ stopCalls[p].reader = "reading"
    /\ LET h == [Heap EXCEPT !.stopCalls[p].reader = result,
                             !.stopCalls[p].convTimer = FALSE]
           base64String == IF result = "null" THEN <<>>
                           ELSE IF result = "prefix" THEN <<"data:;base64", <<>>>>
                           ELSE <<"data:;base64", stopCalls[p].blob.chunks>>
       IN  Commit(onloadend(h, p, base64String))
    /\ UNCHANGED env

\* reader.onerror of the conversion of stop call p (the loadend that follows
\* finds the promise settled).
ReaderError(p) ==
    /\ stopCalls[p].reader = "reading"
    /\ LET h == [Heap EXCEPT !.stopCalls[p].reader = "error",
                             !.stopCalls[p].convTimer = FALSE]
       IN  Commit(IF stopCalls[p].handler # "convert" THEN h
                  ELSE stopFailed(h, p, Err("Error", <<"Failed to convert audio to base64">>)))
    /\ UNCHANGED env

\* The 10 second timer of the conversion of stop call p fires.
ConvertTimeout(p) ==
    /\ stopCalls[p].convTimer
    /\ LET h == [Heap EXCEPT !.stopCalls[p].convTimer = FALSE] IN
       Commit(IF stopCalls[p].handler # "convert" THEN h
              ELSE stopFailed(h, p, Err("Error", <<"Conversion timeout">>)))
    /\ UNCHANGED env

\* fetch() of stop call p rejects: the exchange with the service failed.
FetchFails(p) ==
    /\ stopCalls[p].handler = "fetch"
    /\ Commit(stopFailed(Heap, p, Err("TypeError", <<"Failed to fetch">>)))
    /\ UNCHANGED env

\* The response to the request of stop call p arrives and response.json()
\* settles: ok is response.ok, valid whether the body parses, text and error
\* the fields of the parsed body (empty when absent).
ResponseArrives(p, ok, valid, text, error) ==
    /\ stopCalls[p].handler = "fetch"
    /\ LET h == [Heap EXCEPT !.stopCalls[p].response =
                     [arrived |-> TRUE, ok |-> ok, valid |-> valid, text |-> text]]
       IN Commit(
         IF ~valid THEN stopFailed(h, p, Err("SyntaxError", <<"Unexpected token">>))
         ELSE IF ~ok
         THEN IF includesKeyMissing(error)
              THEN toastDestructive(stopFinished(h, p), "Configuration Required",
                         <<"OpenAI API key needs to be configured for speech-to-text feature.">>)
              ELSE toastDestructive(stopFinished(h, p), "Error",
                         IF error # <<>> THEN error
                         ELSE <<"Failed to process audio. Please try again.">>)
         ELSE stopFinished(onText(h, text), p))
    /\ UNCHANGED env

\* ------------------------------------------------------ the mounted button
InitButton ==
    /\ supported \in SupportedChoices
    /\ streams = <<>>
    /\ mrs = <<>>
    /\ objs = <<>>
    /\ startCalls = <<>>
    /\ stopCalls = <<>>
    /\ ui = InitUi
    /\ out = InitOut
    /\ LocalIdle
    /\ mounted = "MicrophoneButton"

NextButton ==
    \/ StartClick
    \/ \E c \in DOMAIN startCalls : PermissionSettled(c)
    \/ \E c \in DOMAIN startCalls : GetUserMediaGranted(c)
    \/ \E c \in DOMAIN startCalls : \E name \in GumErrors : GetUserMediaRejected(c, name)
    \/ StopClick
    \/ \E r \in DOMAIN mrs : \E size \in ChunkSizes : DataAvailable(r, size)
    \/ \E r \in DOMAIN mrs : \E size \in ChunkSizes : StopEvent(r, size)
    \/ \E r \in DOMAIN mrs : ErrorEvent(r)
    \/ \E p \in DOMAIN stopCalls : StopTimeout(p)
    \/ \E p \in DOMAIN stopCalls : \E result \in ReaderResults : ReaderLoadEnd(p, result)
    \/ \E p \in DOMAIN stopCalls : ReaderError(p)
    \/ \E p \in DOMAIN stopCalls : ConvertTimeout(p)
    \/ \E p \in DOMAIN stopCalls : FetchFails(p)
    \/ \E p \in DOMAIN stopCalls : \E ok, valid \in BOOLEAN :
         \E text \in Texts : \E error \in ServiceErrors :
            ResponseArrives(p, ok, valid, text, error)

SpecButton == InitButton /\ [][NextButton]_vars

\* ------------------------------------------- ClientSpeechRecognition
\* The transcripts and the results the recognizer is made to deliver, and the
\* result events: the results from event.resultIndex on, one or two.
Transcripts == {<<>>, <<" ">>, <<" ", "a">>, <<"b">>}
Results == [isFinal : BOOLEAN, transcript : Transcripts]
ResultEvents == {<<r>> : r \in Results} \cup {<<r1, r2>> : r1 \in Results, r2 \in Results}
\* SpeechRecognitionErrorEvent.error
ErrorCodes == {"no-speech", "audio-capture", "not-allowed", "network",
               "service-not-allowed", "aborted"}

AlreadyListening == <<"Already listening">>
FailedToStart == <<"Failed to start speech recognition">>
NoSpeechDetected == <<"No speech detected">>

NewListen ==
    [status |-> "pending", value |-> <<>>, error |-> <<>>, finalTranscript |-> <<>>,
     heard |-> <<>>, started |-> FALSE, handler |-> "none"]

\* A resolve that overrides an earlier settlement.
resolveListenLast(calls, c, text) ==
    [calls EXCEPT ![c].status = "resolved", ![c].value = text]

\* resolve and reject of the promise of call c: the first settles it.
resolveListen(calls, c, text) ==
    IF calls[c].status # "pending" THEN calls
    ELSE [calls EXCEPT ![c].status = "resolved", ![c].value = text]

rejectListen(calls, c, message) ==
    IF calls[c].status # "pending" THEN calls
    ELSE [calls EXCEPT ![c].status = "rejected", ![c].error = message]

\* A result loop that does not test isFinal.
RECURSIVE onresultAnyResult(_, _)
onresultAnyResult(finalTranscript, results) ==
    IF results = <<>> THEN finalTranscript
    ELSE onresultAnyResult(finalTranscript \o Head(results).transcript, Tail(results))

\* A result loop that puts each final transcript in front.
RECURSIVE onresultPrepend(_, _)
onresultPrepend(finalTranscript, results) ==
    IF results = <<>> THEN finalTranscript
    ELSE onresultPrepend(IF Head(results).isFinal
                         THEN Head(results).transcript \o finalTranscript
                         ELSE finalTranscript,
                         Tail(results))

\* The loop of recognition.onresult over the results of one event.
RECURSIVE onresult(_, _)
onresult(finalTranscript, results) ==
    IF results = <<>> THEN finalTranscript
    ELSE onresult(IF Head(results).isFinal
                  THEN finalTranscript \o Head(results).transcript
                  ELSE finalTranscript,
                  Tail(results))

\* An onerror whose switch has no 'network' case.
errorMessageNoNetwork(code) ==
    CASE code = "no-speech" -> <<"No speech detected. Please try again.">>
      [] code = "audio-capture" -> <<"Microphone not accessible. Please check permissions.">>
      [] code = "not-allowed" -> <<"Microphone permission denied. Please allow microphone access.">>
      [] code = "service-not-allowed" -> <<"Speech recognition service not allowed.">>
      [] OTHER -> <<"Speech recognition error: ", code>>

\* The message recognition.onerror rejects with.
errorMessage(code) ==
    CASE code = "no-speech" -> <<"No speech detected. Please try again.">>
      [] code = "audio-capture" -> <<"Microphone not accessible. Please check permissions.">>
      [] code = "not-allowed" -> <<"Microphone permission denied. Please allow microphone access.">>
      [] code = "network" -> <<"Network error occurred during speech recognition.">>
      [] code = "service-not-allowed" -> <<"Speech recognition service not allowed.">>
      [] OTHER -> <<"Speech recognition error: ", code>>

\* recognition.onend of call c.
onend(calls, c) ==
    IF Trim(calls[c].finalTranscript) # <<>>
    THEN resolveListen(calls, c, Trim(calls[c].finalTranscript))
    ELSE rejectListen(calls, c, NoSpeechDetected)

\* What the recognition actions leave alone.
recorderState == <<supported, streams, mrs, objs, startCalls, stopCalls, ui, mounted>>

\* The number of results delivered so far.
RECURSIVE Heard(_)
Heard(calls) == IF calls = <<>> THEN 0 ELSE Len(Head(calls).heard) + Heard(Tail(calls))

\* handleStartListening after `await speechRecognition.current.startListening()`
\* for its call c: the transcript handed on, or the catch block, and finally.
afterListen(L, c) ==
    LET L1 == [L EXCEPT !.calls[c].handler = "done", !.lui.isListening = FALSE] IN
    IF L.calls[c].status = "resolved"
    THEN IF L.calls[c].value # <<>>
         THEN [L1 EXCEPT !.out.transcribed = Append(L.out.transcribed, L.calls[c].value),
                         !.out.toast = <<"Speech Recognized",
                              "Your speech has been converted to text successfully!">>]
         ELSE L1
    ELSE [L1 EXCEPT !.lui.error = L.calls[c].error,
                    !.out.toast = <<"Speech Recognition Failed">> \o L.calls[c].error,
                    !.out.failed = TRUE]

\* The continuations released by a task of the local path.
RECURSIVE resumeListens(_, _)
resumeListens(L, c) ==
    IF c > Len(L.calls) THEN L
    ELSE resumeListens(IF L.calls[c].handler = "await" /\ L.calls[c].status # "pending"
                       THEN afterListen(L, c) ELSE L,
                       c + 1)

\* The task ends: the continuations run and the state is stored.
Settle(calls, l, o) ==
    LET L == resumeListens([calls |-> calls, lui |-> l, out |-> o], 1) IN
    /\ listenCalls' = L.calls
    /\ lui' = L.lui
    /\ out' = L.out

\* startListening(): the executor of its promise runs to its end. handler
\* tells whether handleStartListening awaits the promise.
startListening(rec, listening, calls0, handler) ==
    LET c == Len(calls0) + 1
        calls == Append(calls0, [NewListen EXCEPT !.handler = handler])
    IN  IF listening
        THEN [recognition |-> rec, isListening |-> listening,
              calls |-> rejectListen(calls, c, AlreadyListening)]
        ELSE IF rec.started
        THEN \* recognition.start() throws InvalidStateError
             [recognition |-> [rec EXCEPT !.handlers = c], isListening |-> FALSE,
              calls |-> rejectListen(calls, c, FailedToStart)]
        ELSE [recognition |-> [rec EXCEPT !.handlers = c, !.started = TRUE],
              isListening |-> listening,
              calls |-> [calls EXCEPT ![c].started = TRUE]]

\* A caller of the object calls startListening().
StartListening ==
    /\ Len(listenCalls) < MaxListens
    /\ LET r == startListening(recognition, isListening, listenCalls, "none") IN
       /\ recognition' = r.recognition
       /\ isListening' = r.isListening
       /\ Settle(r.calls, lui, out)
    /\ UNCHANGED recorderState

\* A stopListening() that does not test the listening flag.
stopListeningAlways(rec, listening) ==
    IF rec.started THEN [rec EXCEPT !.stopping = TRUE] ELSE rec

\* stopListening(): recognition.stop() asks the recognizer to end with what it
\* has captured; the end event follows.
stopListening(rec, listening) ==
    IF listening /\ rec.started THEN [rec EXCEPT !.stopping = TRUE] ELSE rec

StopListening ==
    /\ recognition' = stopListening(recognition, isListening)
    /\ UNCHANGED <<isListening, listenCalls, lui, out, recorderState>>

\* A click while the button shows the microphone: handleStartListening up to
\* the await of startListening().
StartListenClick ==
    /\ mounted = "ClientMicrophoneButton"
    /\ ~lui.isListening
    /\ Len(listenCalls) < MaxListens
    /\ LET r == startListening(recognition, isListening, listenCalls, "await") IN
       /\ recognition' = r.recognition
       /\ isListening' = r.isListening
       /\ Settle(r.calls, [error |-> <<>>, isListening |-> TRUE],
                 [out EXCEPT !.failed = FALSE,
                             !.toast = <<"Listening...",
                                         "Speak now. The microphone is active.">>])
    /\ UNCHANGED recorderState

\* A click while the button shows listening: handleStopListening.
StopListenClick ==
    /\ mounted = "ClientMicrophoneButton"
    /\ lui.isListening
    /\ IF isListening
       THEN /\ recognition' = stopListening(recognition, isListening)
            /\ lui' = [lui EXCEPT !.isListening = FALSE]
            /\ out' = [out EXCEPT !.failed = FALSE,
                                  !.toast = <<"Stopped Listening",
                                              "Microphone has been turned off">>]
       ELSE /\ out' = [out EXCEPT !.failed = FALSE]
            /\ UNCHANGED <<recognition, lui>>
    /\ UNCHANGED <<isListening, listenCalls, recorderState>>

\* The recognizer fires its start event.
RecognitionStart ==
    /\ recognition.started /\ ~recognition.running /\ ~recognition.errored
    /\ recognition' = [recognition EXCEPT !.running = TRUE]
    /\ isListening' = TRUE
    /\ UNCHANGED <<listenCalls, lui, out, recorderState>>

\* The recognizer fires a result event.
RecognitionResult(results) ==
    /\ recognition.running /\ ~recognition.errored
    /\ Heard(listenCalls) + Len(results) <= MaxResults
    /\ LET c == recognition.handlers IN
       listenCalls' = [listenCalls EXCEPT
                         ![c].finalTranscript = onresult(@, results),
                         ![c].heard = @ \o results]
    /\ UNCHANGED <<recognition, isListening, lui, out, recorderState>>

\* The recognizer fires an error event; its end event follows.
RecognitionError(code) ==
    /\ recognition.started /\ ~recognition.errored
    /\ recognition' = [recognition EXCEPT !.errored = TRUE, !.code = code]
    /\ isListening' = FALSE
    /\ Settle(rejectListen(listenCalls, recognition.handlers, errorMessage(code)), lui, out)
    /\ UNCHANGED recorderState

\* The recognizer fires its end event: after its start event, when it has
\* a final result, has heard nothing more or was stopped, or after an error.
RecognitionEnd ==
    /\ recognition.running \/ recognition.errored
    /\ recognition' = [recognition EXCEPT !.started = FALSE, !.running = FALSE,
                                          !.errored = FALSE, !.stopping = FALSE,
                                          !.code = ""]
    /\ isListening' = FALSE
    /\ Settle(onend(listenCalls, recognition.handlers), lui, out)
    /\ UNCHANGED recorderState

InitLocal ==
    /\ supported = MimeSet
    /\ streams = <<>>
    /\ mrs = <<>>
    /\ objs = <<>>
    /\ startCalls = <<>>
    /\ stopCalls = <<>>
    /\ ui = InitUi
    /\ out = InitOut
    /\ LocalIdle
    /\ mounted = "none"

NextLocal ==
    \/ StartListening
    \/ StopListening
    \/ RecognitionStart
    \/ \E results \in ResultEvents : RecognitionResult(results)
    \/ \E code \in ErrorCodes : RecognitionError(code)
    \/ RecognitionEnd

SpecLocal == InitLocal /\ [][NextLocal]_vars

\* --------------------------------------------------- the payload encoder
\* The chunk sequences the blobs handed to the encoder are made of.
BlobParts == {<<>>, <<0>>, <<0, 0>>, <<1>>, <<0, 2>>}

\* handleStopRecording resumes with an audio blob and calls
\* convertBlobToBase64 on it.
Encode(parts) ==
    /\ ~ui.isProcessing
    /\ Len(stopCalls) < MaxEncodes
    /\ Commit([Heap EXCEPT
                !.ui.isProcessing = TRUE,
                !.stopCalls = Append(stopCalls,
                    [NewStop(0) EXCEPT !.status = "resolved",
                                       !.blob = Blob(parts, "audio/webm"),
                                       !.handler = "await"])])
    /\ UNCHANGED env

InitEncoder == InitButton /\ supported = {}

NextEncoder ==
    \/ \E parts \in BlobParts : Encode(parts)
    \/ \E p \in DOMAIN stopCalls : \E result \in ReaderResults : ReaderLoadEnd(p, result)
    \/ \E p \in DOMAIN stopCalls : ReaderError(p)
    \/ \E p \in DOMAIN stopCalls : ConvertTimeout(p)
    \/ \E p \in DOMAIN stopCalls : FetchFails(p)
    \/ \E p \in DOMAIN stopCalls : \E ok, valid \in BOOLEAN :
         \E text \in Texts : \E error \in ServiceErrors :
            ResponseArrives(p, ok, valid, text, error)

SpecEncoder == InitEncoder /\ [][NextEncoder]_vars

\* ------------------------------------------- the mounted ClientMicrophoneButton
InitLocalButton ==
    /\ supported = MimeSet
    /\ streams = <<>>
    /\ mrs = <<>>
    /\ objs = <<>>
    /\ startCalls = <<>>
    /\ stopCalls = <<>>
    /\ ui = InitUi
    /\ out = InitOut
    /\ LocalIdle
    /\ mounted = "ClientMicrophoneButton"

NextLocalButton ==
    \/ StartListenClick
    \/ StopListenClick
    \/ RecognitionStart
    \/ \E results \in ResultEvents : RecognitionResult(results)
    \/ \E code \in ErrorCodes : RecognitionError(code)
    \/ RecognitionEnd

SpecLocalButton == InitLocalButton /\ [][NextLocalButton]_vars

\* ChatBot with the microphone button it renders: one of the two.
InitPage == InitButton \/ InitLocalButton

NextPage == NextButton \/ NextLocalButton

SpecPage == InitPage /\ [][NextPage]_vars

\* A completion the runtime owes the button: an armed timer fires, a request
\* sent gets its response or fails, the recognizer started fires its start
\* event and the recognizer running or failed fires its end event.
Completion ==
    \/ \E p \in DOMAIN stopCalls : StopTimeout(p)
    \/ \E p \in DOMAIN stopCalls : ConvertTimeout(p)
    \/ \E p \in DOMAIN stopCalls : FetchFails(p)
    \/ \E p \in DOMAIN stopCalls : \E ok, valid \in BOOLEAN :
         \E text \in Texts : \E error \in ServiceErrors :
            ResponseArrives(p, ok, valid, text, error)
    \/ RecognitionStart
    \/ RecognitionEnd

FairPage == SpecPage /\ WF_vars(Completion)

\* Fairness of the VoiceRecorder runs: a timer that is armed fires unless it
\* is cleared first (setTimeout of the event loop).
FairRecorder ==
    SpecRecorder /\ \A p \in 1..MaxCalls : WF_vars(p \in DOMAIN stopCalls /\ StopTimeout(p))

\* Fairness of the recognizer: after a start() that succeeded it fires its
\* start event unless an error comes first, and its end event after either.
FairLocal == SpecLocal /\ WF_vars(RecognitionStart) /\ WF_vars(RecognitionEnd)

\* =================================================================== claims
AlreadyActiveError == Err("Error", <<"AlreadyActive">>)

\* C1 (guard law): a startRecording() invoked while the object's session is
\* Recording ends with the AlreadyActive error and has neither acquired a
\* stream nor created a recorder nor run the release routine on the session.
C1_GuardLaw ==
    \A c \in DOMAIN startCalls :
        (startCalls[c].onRecording /\ startCalls[c].pc = "done") =>
            /\ startCalls[c].error = AlreadyActiveError
            /\ startCalls[c].acquired = 0
            /\ startCalls[c].created = 0

\* C2: in every state of the microphone buttons at most one microphone
\* stream is live and at most one recorder or recognizer is recording or
\* listening.
C2_OneFlow ==
    /\ Cardinality({s \in DOMAIN streams : streams[s].live}) <= 1
    /\ Cardinality({r \in DOMAIN mrs : mrs[r].state = "recording"})
         + (IF recognition.started THEN 1 ELSE 0) <= 1

\* No handler of the button is running and no completion is outstanding.
Quiescent ==
    /\ \A c \in DOMAIN startCalls : startCalls[c].pc = "done" /\ startCalls[c].task = "done"
    /\ \A p \in DOMAIN stopCalls :
         /\ stopCalls[p].handler = "done"
         /\ ~stopCalls[p].timer /\ ~stopCalls[p].convTimer
         /\ stopCalls[p].reader # "reading"
    /\ \A r \in DOMAIN mrs : ~mrs[r].stopPending

\* C3 (neutral state): once the handlers have completed and their pending
\* completions have been delivered, a stream is live or a recorder recording
\* only if the button shows the recording state.
C3_NeutralState ==
    (Quiescent /\ ~recognition.started) =>
        \/ ui.isRecording
        \/ /\ \A s \in DOMAIN streams : ~streams[s].live
           /\ \A r \in DOMAIN mrs : mrs[r].state # "recording"

\* C4 (timeout law): when the 5 second timer of a stop call fires, its
\* promise is rejected with the stop-timeout error, the tracks of the stream
\* the object held are stopped, the stream and recorder references are null
\* and the chunk sequence is empty.
C4_TimeoutLaw ==
    [][\A p \in DOMAIN stopCalls :
         (~stopCalls[p].fired /\ stopCalls'[p].fired) =>
            LET o == stopCalls[p].obj IN
            /\ stopCalls[p].status = "pending"
            /\ stopCalls'[p].status = "rejected"
            /\ stopCalls'[p].error = StopTimeoutError(objs[o].kind)
            /\ objs[o].stream # 0 => ~streams'[objs[o].stream].live
            /\ objs'[o].stream = 0
            /\ objs'[o].mediaRecorder = 0
            /\ objs'[o].audioChunks = <<>>]_vars

\* A stop call on a Recording session whose timer fired while the finalize
\* callback was still outstanding.
C4_Witness ==
    \E p \in DOMAIN stopCalls :
        /\ stopCalls[p].fired
        /\ stopCalls[p].mr # 0
        /\ mrs[stopCalls[p].mr].stopPending
        /\ ~mrs[stopCalls[p].mr].errored
        /\ ~streams[mrs[stopCalls[p].mr].stream].live

\* C5: the promise of a stopRecording() called on an object that holds a
\* recorder always settles, and when it resolves the audio has non-zero size.
C5_StopSettles ==
    /\ [](\A p \in DOMAIN stopCalls :
            stopCalls[p].status = "resolved" => BlobSize(stopCalls[p].blob) > 0)
    /\ \A p \in 1..MaxCalls :
         (p \in DOMAIN stopCalls /\ stopCalls[p].mr # 0)
            ~> (p \in DOMAIN stopCalls /\ stopCalls[p].status \in {"resolved", "rejected"})

\* A stop call on a granted session has settled: one resolved with audio, one
\* rejected by the timer.
C5_Witness ==
    \E p \in DOMAIN stopCalls :
        /\ stopCalls[p].mr # 0
        /\ stopCalls[p].status = "resolved"

C7_NoSupportedFormat ==
    \A c \in DOMAIN startCalls :
        (startCalls[c].probed /\ supported = {}) =>
            /\ startCalls[c].error = NoSupportedFormat
            /\ startCalls[c].acquired = 0
            /\ startCalls[c].created = 0

\* C8 (idempotent release): no track is stopped twice, and a run of the
\* release routine on an object already released (in a step that acquires no
\* new stream) stops no track and leaves stream, recorder and chunks at null,
\* null, empty.
C8_CleanupIdempotent ==
    [][/\ \A s \in DOMAIN streams' : streams'[s].stops <= 1
       /\ \A o \in DOMAIN objs :
            (objs'[o].tick # objs[o].tick /\ objs[o].released
                /\ Len(streams') = Len(streams)) =>
                /\ streams' = streams
                /\ objs'[o].stream = 0
                /\ objs'[o].mediaRecorder = 0
                /\ objs'[o].audioChunks = <<>>]_vars

\* The release routine has run twice on one object: a second stopRecording()
\* found the recorder inactive and released it, then the timer of the first
\* stop call fired.
C8_Witness ==
    \E o \in DOMAIN objs : \E p, q \in DOMAIN stopCalls :
        /\ p # q
        /\ stopCalls[p].obj = o /\ stopCalls[q].obj = o
        /\ stopCalls[p].fired
        /\ stopCalls[q].error = NotActiveError
        /\ objs[o].released

\* C9 (local guard): a startListening() called while a session is Listening
\* (the recognizer was started by an earlier call and has neither ended nor
\* failed) is rejected at once with 'Already listening', and the recognizer,
\* its handlers and every earlier call (transcript, promise) are as before.
C9_LocalGuard ==
    [][(/\ Len(listenCalls') = Len(listenCalls) + 1
        /\ recognition.started /\ ~recognition.errored) =>
            /\ listenCalls'[Len(listenCalls')].status = "rejected"
            /\ listenCalls'[Len(listenCalls')].error = AlreadyListening
            /\ recognition' = recognition
            /\ SubSeq(listenCalls', 1, Len(listenCalls)) = listenCalls]_vars

\* The concatenation of the transcripts of the final results of a stream.
RECURSIVE FinalText(_)
FinalText(heard) ==
    IF heard = <<>> THEN <<>>
    ELSE (IF Head(heard).isFinal THEN Head(heard).transcript ELSE <<>>)
         \o FinalText(Tail(heard))

Blank(s) == \A i \in DOMAIN s : s[i] = " "

\* C10 (local no-speech law): when listening ends normally (an end event
\* with no error event before it) and the results delivered to the pending
\* call whose handlers the recognizer holds had no final result, or final
\* results that concatenate to nothing but whitespace, the call is rejected
\* with 'No speech detected'; and no call ever resolves with an empty or
\* whitespace-only string.
C10_NoSpeechLaw ==
    [][/\ \A c \in DOMAIN listenCalls' :
            listenCalls'[c].status = "resolved" => ~Blank(listenCalls'[c].value)
       /\ (/\ recognition.started /\ ~recognition'.started /\ ~recognition.errored
           /\ listenCalls[recognition.handlers].status = "pending"
           /\ Blank(FinalText(listenCalls[recognition.handlers].heard))) =>
              /\ listenCalls'[recognition.handlers].status = "rejected"
              /\ listenCalls'[recognition.handlers].error = NoSpeechDetected]_vars

\* A call was rejected for no speech after an interim result with words and
\* a final result of whitespace.
C10_Witness ==
    \E c \in DOMAIN listenCalls :
        /\ listenCalls[c].status = "rejected"
        /\ listenCalls[c].error = NoSpeechDetected
        /\ \E i \in DOMAIN listenCalls[c].heard :
             ~listenCalls[c].heard[i].isFinal /\ ~Blank(listenCalls[c].heard[i].transcript)
        /\ \E i \in DOMAIN listenCalls[c].heard :
             listenCalls[c].heard[i].isFinal /\ listenCalls[c].heard[i].transcript = <<" ">>

\* C11: every transcript handed to onTranscription, by either button, is
\* non-empty and has no whitespace at either end; and an OK response whose
\* text is empty or whitespace is reported as 'No speech detected' without a
\* call of onTranscription.
C11_TranscriptTrimmed ==
    [][/\ \A i \in DOMAIN out'.transcribed :
            /\ out'.transcribed[i] # <<>>
            /\ Head(out'.transcribed[i]) # " "
            /\ out'.transcribed[i][Len(out'.transcribed[i])] # " "
       /\ \A p \in DOMAIN stopCalls :
            (/\ ~stopCalls[p].response.arrived /\ stopCalls'[p].response.arrived
             /\ stopCalls'[p].response.ok /\ stopCalls'[p].response.valid
             /\ Blank(stopCalls'[p].response.text)) =>
                /\ out'.transcribed = out.transcribed
                /\ out'.toast[1] = "No speech detected"]_vars

\* An OK response with a whitespace text has been handled.
C11_Witness ==
    \E p \in DOMAIN stopCalls :
        /\ stopCalls[p].response.arrived
        /\ stopCalls[p].response.ok /\ stopCalls[p].response.valid
        /\ stopCalls[p].response.text = <<" ">>
        /\ stopCalls[p].handler = "done"
        /\ out.transcribed = <<>>

\* C12: the encoder given audio of zero bytes rejects at once with its encode
\* failure: no reader is started, no 10 second timer armed, and the handler
\* that awaited it sends no request.
C12_EmptyBlobRejected ==
    [][\A p \in DOMAIN stopCalls' :
         (stopCalls'[p].status = "resolved" /\ BlobSize(stopCalls'[p].blob) = 0) =>
            /\ stopCalls'[p].reader = "idle"
            /\ ~stopCalls'[p].convTimer
            /\ stopCalls'[p].handler = "done"
            /\ ~stopCalls'[p].response.arrived
            /\ p \notin DOMAIN stopCalls =>
                 /\ out'.requests = out.requests
                 /\ out'.toast = <<"Error", "Cannot convert empty blob to base64">>]_vars

\* The encoder was given a blob made of one chunk of zero bytes.
C12_Witness ==
    \E p \in DOMAIN stopCalls :
        /\ stopCalls[p].status = "resolved"
        /\ stopCalls[p].blob.chunks = <<0>>
        /\ stopCalls[p].handler = "done"
        /\ out.requests = 0

\* The button is in its ready state.
Ready == ~ui.isRecording /\ ~ui.isProcessing /\ ~lui.isListening

\* C13: after a failure the button has shown (a start, stop, encode or
\* request failure, a recognition error, 'Already listening') its recording,
\* processing and listening flags all return to false.
C13_NoStuckIndicator == out.failed ~> Ready

\* A failure was shown while the button was not ready: a start call failed
\* while the audio of a stop call was still being processed.
C13_Witness ==
    /\ out.failed /\ ui.isProcessing
    /\ \E c \in DOMAIN startCalls : startCalls[c].error # NoErr

\* The session of object o is Recording: the recorder it holds was created
\* by a startRecording() that succeeded, no stopRecording() has asked it to
\* finalize, and it has reported no error.
SessionRecording(o) ==
    LET r == objs[o].mediaRecorder IN
    /\ r # 0
    /\ \E c \in DOMAIN startCalls :
         /\ startCalls[c].obj = o /\ startCalls[c].pc = "done"
         /\ startCalls[c].error = NoErr /\ startCalls[c].created = r
    /\ \A p \in DOMAIN stopCalls : stopCalls[p].mr # r
    /\ ~mrs[r].errored

\* C14: isRecording() is true only while the session is Recording; it is
\* false before start, while the first microphone request is pending, after
\* stopRecording() has asked the recorder to finalize and after the session
\* is Finalized or Failed.
C14_IsRecordingOnlyRecording ==
    \A o \in DOMAIN objs : isRecording(Heap, o) => SessionRecording(o)

\* stopRecording() has asked the recorder to finalize, the object still holds
\* it, and isRecording() is false.
C14_Witness ==
    \E o \in DOMAIN objs : \E p \in DOMAIN stopCalls :
        /\ objs[o].mediaRecorder # 0
        /\ stopCalls[p].mr = objs[o].mediaRecorder
        /\ stopCalls[p].status = "pending"
        /\ ~isRecording(Heap, o)

\* C15: when the recorder reports an error while its session is Recording
\* (no stopRecording() called yet), the error callback releases the session:
\* after it the tracks of the stream are stopped and the stream reference,
\* the recorder reference and the chunk sequence are cleared.
C15_DeviceErrorReleases ==
    [][\A o \in DOMAIN objs :
         (/\ SessionRecording(o) /\ isRecording(Heap, o)
          /\ mrs'[objs[o].mediaRecorder].errored) =>
            /\ ~streams'[mrs[objs[o].mediaRecorder].stream].live
            /\ objs'[o].stream = 0
            /\ objs'[o].mediaRecorder = 0
            /\ objs'[o].audioChunks = <<>>]_vars

SessionOver(o) ==
    \E c \in DOMAIN startCalls :
        /\ startCalls[c].obj = o
        /\ \A d \in DOMAIN startCalls : startCalls[d].obj = o => d <= c
        /\ startCalls[c].created # 0
        /\ mrs[startCalls[c].created].state = "inactive"
        /\ ~mrs[startCalls[c].created].stopPending

\* C17: the release routine runs exactly once per session: never twice
\* between a startRecording() and the next, whatever the order of the
\* finalize, error and timer callbacks, and not zero times by the time the
\* session's recorder has been through its last callback.  Stated for
\* sessions started one after the other on their object.
C17_ReleasedExactlyOnce ==
    \A o \in DOMAIN objs :
        ~objs[o].overlap =>
            /\ objs[o].cleanups <= 1
            /\ SessionOver(o) => objs[o].cleanups = 1

\* C18: on every runtime, a recorder that startRecording() created was
\* created with the supported candidate of lowest index in the ordered list,
\* a start that obtained the microphone on a runtime with some supported
\* candidate created one, and the encoding of a recorder is the same in
\* every state of its session (the runtime's answer does not change).
C18_FirstSupportedChosen ==
    /\ \A r \in DOMAIN mrs :
          \E i \in 1..Len(mimeTypes) :
              /\ mrs[r].mimeType = mimeTypes[i]
              /\ mimeTypes[i] \in supported
              /\ \A j \in 1..(i - 1) : mimeTypes[j] \notin supported
    /\ \A c \in DOMAIN startCalls :
          (startCalls[c].acquired # 0 /\ supported # {}) =>
              /\ startCalls[c].created # 0
              /\ startCalls[c].error = NoErr

\* A session on a runtime without the first three candidates has run to its
\* end on audio/mpeg although audio/wav is supported too.
C18_Witness ==
    /\ supported = {"audio/mpeg", "audio/wav"}
    /\ \E r \in DOMAIN mrs :
          /\ mrs[r].mimeType = "audio/mpeg"
          /\ mrs[r].state = "inactive"
          /\ ~mrs[r].stopPending

MicrophoneDeniedError ==
    Err("Error", <<"Microphone access denied. Please allow microphone permissions in your browser settings and try again.">>)
NoMicrophoneError ==
    Err("Error", <<"No microphone found. Please connect a microphone and try again.">>)
MicrophoneBusyError ==
    Err("Error", <<"Microphone is already in use by another application. Please close other applications using the microphone and try again.">>)
UnsupportedConstraintsError ==
    Err("Error", <<"Microphone does not support the required audio format. Please try with a different microphone.">>)
GenericStartError(message) ==
    Err("Error", <<"Failed to access microphone: ">> \o message)
ExpectedStartError(cause) ==
    CASE cause = "NotAllowedError" -> MicrophoneDeniedError
      [] cause = "NotFoundError" -> NoMicrophoneError
      [] cause = "NotReadableError" -> MicrophoneBusyError
      [] cause = "OverconstrainedError" -> UnsupportedConstraintsError
      [] OTHER -> GenericStartError(<<cause>>)

\* C20: a VoiceRecorder.startRecording() whose microphone request was
\* rejected fails with the message of its cause (denied, no device, busy,
\* unsupported constraints, generic otherwise), the five messages are
\* pairwise distinct, the call acquired no stream and created no recorder,
\* and right after the failure the object's stream and recorder references
\* are null and its chunk sequence is empty.
C20_StartFailureClassified ==
    /\ [](Cardinality({ExpectedStartError(name) : name \in GumErrors}) = 5)
    /\ [](\A c \in DOMAIN startCalls :
            startCalls[c].cause # "" =>
                /\ startCalls[c].error = ExpectedStartError(startCalls[c].cause)
                /\ startCalls[c].acquired = 0
                /\ startCalls[c].created = 0)
    /\ [][\A c \in DOMAIN startCalls :
            (startCalls[c].cause = "" /\ startCalls'[c].cause # "") =>
                LET o == startCalls[c].obj IN
                /\ objs'[o].stream = 0
                /\ objs'[o].mediaRecorder = 0
                /\ objs'[o].audioChunks = <<>>
       ]_vars

\* One start failed because the device is busy, another for a cause outside
\* the four named ones.
C20_Witness ==
    /\ \E c \in DOMAIN startCalls :
          /\ startCalls[c].cause = "NotReadableError"
          /\ startCalls[c].error = MicrophoneBusyError
    /\ \E c \in DOMAIN startCalls :
          /\ startCalls[c].cause = "AbortError"
          /\ startCalls[c].error = GenericStartError(<<"AbortError">>)

\* The errors the encoder rejects with when the conversion yields nothing
\* usable.
EncodeFailures ==
    {<<"Error", "Failed to convert audio to base64">>, <<"Error", "Invalid base64 data">>}

\* C21: while the encoder's promise of a stop call is pending, the 10 second
\* timer firing before loadend and error rejects it with the conversion
\* timeout error; a loadend without a result or without base64 content, and
\* the error callback, reject it with an encode failure, a loadend with
\* content resolves it (the request is sent); once settled it is never
\* pending again and a loadend or error that arrives after the timeout
\* changes nothing the handler shows; the 10 second timer is armed only
\* after the stop promise has resolved and its 5 second timer is gone, and
\* firing it changes nothing of the stop promise.
C21_EncoderSettlesOnce ==
    /\ [](\A p \in DOMAIN stopCalls :
            stopCalls[p].convTimer =>
                /\ ~stopCalls[p].timer
                /\ stopCalls[p].status = "resolved"
                /\ stopCalls[p].handler = "convert")
    /\ [][\A p \in DOMAIN stopCalls :
            /\ (stopCalls[p].handler = "convert" /\ stopCalls[p].convTimer
                    /\ ~stopCalls'[p].convTimer /\ stopCalls'[p].reader = "reading") =>
                  /\ stopCalls'[p].handler = "done"
                  /\ out'.toast = <<"Error", "Conversion timeout">>
                  /\ out'.requests = out.requests
                  /\ stopCalls'[p].status = stopCalls[p].status
                  /\ stopCalls'[p].blob = stopCalls[p].blob
            /\ (stopCalls[p].handler = "convert"
                    /\ stopCalls'[p].reader \in {"null", "prefix", "error"}) =>
                  /\ stopCalls'[p].handler = "done"
                  /\ out'.toast \in EncodeFailures
                  /\ out'.requests = out.requests
            /\ (stopCalls[p].handler = "convert" /\ stopCalls'[p].reader = "content") =>
                  /\ stopCalls'[p].handler = "fetch"
                  /\ out'.requests = out.requests + 1
            /\ (stopCalls[p].handler \in {"fetch", "done"}) =>
                  stopCalls'[p].handler # "convert"
            /\ (stopCalls[p].handler = "done" /\ stopCalls[p].reader = "reading"
                    /\ stopCalls'[p].reader # "reading") =>
                  /\ stopCalls'[p].handler = "done"
                  /\ out' = out
                  /\ ui' = ui
       ]_vars

\* The timer fired first and the loadend arrived afterwards, with content:
\* the timeout error stays shown and no request was sent.
C21_Witness ==
    \E p \in DOMAIN stopCalls :
        /\ stopCalls[p].handler = "done"
        /\ stopCalls[p].reader = "content"
        /\ out.toast = <<"Error", "Conversion timeout">>
        /\ out.requests = 0

\* The message of each class of recognizer error.
ExpectedListenError(code) ==
    IF code = "no-speech" THEN <<"No speech detected. Please try again.">>
    ELSE IF code = "audio-capture"
    THEN <<"Microphone not accessible. Please check permissions.">>
    ELSE IF code = "not-allowed"
    THEN <<"Microphone permission denied. Please allow microphone access.">>
    ELSE IF code = "network" THEN <<"Network error occurred during speech recognition.">>
    ELSE IF code = "service-not-allowed" THEN <<"Speech recognition service not allowed.">>
    ELSE <<"Speech recognition error: ", code>>

\* C22: an error event of the recognizer rejects the pending startListening()
\* whose callbacks it runs with the message of the class of its code, the
\* six classes have pairwise distinct messages, and the listening flag is
\* false from the error callback until the recognizer has ended.
C22_ErrorClassified ==
    /\ [](Cardinality({ExpectedListenError(code) : code \in ErrorCodes}) = 6)
    /\ [](recognition.errored => ~isListening)
    /\ [][(~recognition.errored /\ recognition'.errored) =>
            LET c == recognition.handlers IN
            /\ ~isListening'
            /\ listenCalls[c].status = "pending" =>
                  /\ listenCalls'[c].status = "rejected"
                  /\ listenCalls'[c].error = ExpectedListenError(recognition'.code)
       ]_vars

\* A network error hit a session that was listening and had heard a final
\* result; its call is rejected with the network message.
C22_Witness ==
    /\ recognition.errored /\ recognition.running
    /\ recognition.code = "network"
    /\ \E c \in DOMAIN listenCalls :
          /\ c = recognition.handlers
          /\ listenCalls[c].heard # <<>>
          /\ listenCalls[c].status = "rejected"
          /\ listenCalls[c].error = <<"Network error occurred during speech recognition.">>

\* C23: stopListening() leaves the recognizer alone when the listening flag
\* is false and only asks it to stop when the flag is true; the step that
\* asks settles no promise and keeps the flag; and when the end event follows
\* the request with no error event in between, the pending call whose
\* callbacks the recognizer runs is resolved with the trim of its final
\* results if that is non-empty and rejected with 'No speech detected'
\* otherwise.
C23_StopIsGraceful ==
    /\ [](stopListening(recognition, isListening) =
            IF isListening THEN [recognition EXCEPT !.stopping = TRUE] ELSE recognition)
    /\ [][(~recognition.stopping /\ recognition'.stopping) =>
            /\ isListening /\ isListening'
            /\ listenCalls' = listenCalls
            /\ recognition' = [recognition EXCEPT !.stopping = TRUE]
       ]_vars
    /\ [][(/\ recognition.stopping /\ ~recognition.errored
           /\ recognition.started /\ ~recognition'.started
           /\ listenCalls[recognition.handlers].status = "pending") =>
            LET c == recognition.handlers
                text == Trim(FinalText(listenCalls[c].heard))
            IN  IF text # <<>>
                THEN /\ listenCalls'[c].status = "resolved"
                     /\ listenCalls'[c].value = text
                ELSE /\ listenCalls'[c].status = "rejected"
                     /\ listenCalls'[c].error = NoSpeechDetected
       ]_vars

\* A listening session that has heard a final result with words was asked
\* to stop; its call is pending until the end event.
C23_Witness ==
    /\ recognition.stopping /\ recognition.running /\ ~recognition.errored
    /\ isListening
    /\ listenCalls[recognition.handlers].status = "pending"
    /\ Trim(FinalText(listenCalls[recognition.handlers].heard)) = <<"a">>

\* C24: the string a startListening() resolves with is the trim of the
\* concatenation, in arrival order, of the transcripts of exactly the final
\* results delivered to it; what the button hands on is such a string, so no
\* interim result reaches the caller.
C24_OnlyFinalResults ==
    /\ \A c \in DOMAIN listenCalls :
          /\ listenCalls[c].finalTranscript = FinalText(listenCalls[c].heard)
          /\ listenCalls[c].status = "resolved" =>
                listenCalls[c].value = Trim(FinalText(listenCalls[c].heard))
    /\ \A i \in DOMAIN out.transcribed :
          \E c \in DOMAIN listenCalls :
              /\ listenCalls[c].status = "resolved"
              /\ out.transcribed[i] = Trim(FinalText(listenCalls[c].heard))

\* A call that was delivered the final results " a" and "b", in that order,
\* resolved with "ab" and the button handed that on.
C24_Witness ==
    \E c \in DOMAIN listenCalls :
        /\ listenCalls[c].status = "resolved"
        /\ listenCalls[c].heard = <<[isFinal |-> TRUE, transcript |-> <<" ", "a">>],
                                    [isFinal |-> TRUE, transcript |-> <<"b">>]>>
        /\ listenCalls[c].value = <<"a", "b">>
        /\ out.transcribed = <<(<<"a", "b">>)>>

\* What the button shows for a failure the service reported with error text
\* e: the misconfigured-service kind when e names the missing API key, the
\* service's text otherwise (a fixed text when it gave none).
ServiceFailureToast(e) ==
    IF \E i \in DOMAIN e : e[i] = KeyMissing
    THEN <<"Configuration Required",
           "OpenAI API key needs to be configured for speech-to-text feature.">>
    ELSE IF e # <<>> THEN <<"Error">> \o e
    ELSE <<"Error", "Failed to process audio. Please try again.">>

\* What the button shows when the exchange with the service failed.
TransportFailureToast == <<"Error", "Failed to fetch">>

\* C25: while the request of a stop call is in flight, a response with a
\* non-OK status is shown as a service failure (misconfigured, or rejected
\* with the service's error text), a failed exchange is shown as a failure
\* that is none of these, neither hands a transcript on whatever the body
\* holds, and a stop call sends its request once: the step that puts it in
\* flight adds one to the requests sent and no later step of the call adds
\* another.
C25_ServiceVsTransport ==
    /\ [](\A e \in ServiceErrors : TransportFailureToast # ServiceFailureToast(e))
    /\ [][\A p \in DOMAIN stopCalls :
            /\ (stopCalls[p].handler = "fetch" /\ stopCalls'[p].response.arrived
                    /\ ~stopCalls'[p].response.ok) =>
                  /\ \E e \in ServiceErrors : out'.toast = ServiceFailureToast(e)
                  /\ out'.transcribed = out.transcribed
                  /\ out'.requests = out.requests
                  /\ stopCalls'[p].handler = "done"
            /\ (stopCalls[p].handler = "fetch" /\ stopCalls'[p].handler = "done"
                    /\ ~stopCalls'[p].response.arrived) =>
                  /\ out'.toast = TransportFailureToast
                  /\ out'.transcribed = out.transcribed
                  /\ out'.requests = out.requests
            /\ (stopCalls[p].handler # "fetch" /\ stopCalls'[p].handler = "fetch") =>
                  /\ stopCalls[p].handler = "convert"
                  /\ out'.requests = out.requests + 1
            /\ stopCalls[p].handler = "done" => stopCalls'[p].handler = "done"
       ]_vars

\* C26: when a stop call was made while a startRecording() on its object
\* awaited the microphone, then once the grant has been delivered and both
\* calls have completed, the stream that start acquired is not live and the
\* recorder it created is not recording.
C26_StopWhilePending ==
    \A p \in DOMAIN stopCalls :
        LET c == stopCalls[p].during IN
        (c # 0 /\ stopCalls[p].status # "pending" /\ startCalls[c].pc = "done") =>
            /\ startCalls[c].acquired # 0 => ~streams[startCalls[c].acquired].live
            /\ startCalls[c].created # 0 => mrs[startCalls[c].created].state # "recording"

\* C27: when the stop call of a recorder has been settled (timed out or
\* failed) and its object holds the recorder of a later session, a callback
\* of the old recorder that fires late leaves the later session as it is:
\* its stream is held and live, its recorder is held, its chunks are kept.
C27_LateCallbackHarmless ==
    [][\A r \in DOMAIN mrs :
         LET o == mrs[r].owner IN
         (/\ mrs'[r] # mrs[r]
          /\ mrs[r].onstop # 0
          /\ stopCalls[mrs[r].onstop].status # "pending"
          /\ objs[o].mediaRecorder \notin {0, r}) =>
            /\ objs'[o].mediaRecorder = objs[o].mediaRecorder
            /\ objs'[o].stream = objs[o].stream
            /\ objs'[o].audioChunks = objs[o].audioChunks
            /\ streams' = streams
      ]_vars

\* C28: when a second stop call was made on a recorder whose first stop call
\* was waiting for it to finalize, and the recorder has finalized without an
\* error, before the first call's timer fired, having delivered a non-empty
\* chunk, the first call is resolved with the audio delivered and the second
\* is rejected.
C28_SecondStopHarmless ==
    \A p, q \in DOMAIN stopCalls :
        LET r == stopCalls[p].mr IN
        (/\ p < q /\ r # 0 /\ stopCalls[q].mr = r
         /\ ~mrs[r].stopPending /\ ~mrs[r].errored
         /\ mrs[r].delivered # <<>>
         /\ ~stopCalls[p].fired) =>
            /\ stopCalls[p].status = "resolved"
            /\ stopCalls[p].blob.chunks = mrs[r].delivered
            /\ stopCalls[q].status = "rejected"

\* C29: with a recognizer that ends every session it started, every promise
\* startListening() has returned is eventually settled.
C29_ListenSettles ==
    \A c \in 1..MaxListens :
        (c \in DOMAIN listenCalls) ~>
            (c \in DOMAIN listenCalls /\ listenCalls[c].status # "pending")

\* C30: a settled startListening() promise keeps its outcome through every
\* later event; in particular, when the end event follows an error event,
\* the call whose start() the recognizer accepted stays rejected with the
\* message of the error's class, whatever final results it had accumulated.
C30_FirstTerminatorWins ==
    [][/\ \A c \in DOMAIN listenCalls :
            listenCalls[c].status # "pending" =>
                /\ listenCalls'[c].status = listenCalls[c].status
                /\ listenCalls'[c].value = listenCalls[c].value
                /\ listenCalls'[c].error = listenCalls[c].error
       /\ (recognition.errored /\ ~recognition'.errored
              /\ listenCalls[recognition.handlers].started) =>
            LET c == recognition.handlers IN
            /\ listenCalls'[c].status = "rejected"
            /\ listenCalls'[c].error = ExpectedListenError(recognition.code)
            /\ listenCalls'[c].value = <<>>
      ]_vars

\* A session that had accumulated a final result with words was hit by a
\* network error and has ended: its call is rejected with the network
\* message.
C30_Witness ==
    /\ ~recognition.started
    /\ \E c \in DOMAIN listenCalls :
          /\ c = recognition.handlers
          /\ listenCalls[c].started
          /\ Trim(FinalText(listenCalls[c].heard)) # <<>>
          /\ listenCalls[c].status = "rejected"
          /\ listenCalls[c].error = ExpectedListenError("network")

====
